---- MODULE Spec2Model ----
(***************************************************************************)
(* Operational space controller of abr_control (controllers/osc.py).      *)
(*                                                                         *)
(* Numbers: numpy's float64 values are modelled as exact rationals         *)
(* <<n, d>> (d > 0, lowest terms).  The three IEEE values the velocity      *)
(* limiter can produce are kept as <<1, 0>> (+inf), <<-1, 0>> (-inf) and   *)
(* <<0, 0>> (nan).  Rounding of float64 arithmetic is not modelled.        *)
(* Vectors are sequences of numbers, matrices are sequences of rows.       *)
(***************************************************************************)
EXTENDS Integers, Sequences, FiniteSets, TLC

\* ------------------------------------------------------------------------
\* Rational arithmetic
\* ------------------------------------------------------------------------

IAbs(i) == IF i < 0 THEN -i ELSE i

RECURSIVE GCD(_, _)
GCD(a, b) == IF b = 0 THEN a ELSE GCD(b, a % b)

Norm(n, d) ==
    IF n = 0 THEN <<0, 1>>
    ELSE LET g == GCD(IAbs(n), IAbs(d))
             s == IF d < 0 THEN -1 ELSE 1
         IN  <<s * (n \div g), s * (d \div g)>>

R(i) == <<i, 1>>
Zero == <<0, 1>>
One == <<1, 1>>
PosInf == <<1, 0>>
NegInf == <<-1, 0>>
NaN == <<0, 0>>

IsFinite(x) == x[2] # 0
IsNaN(x) == x = NaN

RAdd(x, y) == IF x[2] = 1 /\ y[2] = 1 THEN <<x[1] + y[1], 1>>
              ELSE Norm(x[1] * y[2] + y[1] * x[2], x[2] * y[2])
RNeg(x) == <<-x[1], x[2]>>
RSub(x, y) == RAdd(x, RNeg(y))
RMul(x, y) == IF x[1] = 0 \/ y[1] = 0 THEN Zero
              ELSE IF x[2] = 1 /\ y[2] = 1 THEN <<x[1] * y[1], 1>>
              ELSE Norm(x[1] * y[1], x[2] * y[2])
\* finite x / finite non-zero y
RDiv(x, y) == Norm(x[1] * y[2], x[2] * y[1])
RAbs(x) == <<IAbs(x[1]), x[2]>>
RSign(x) == IF x[1] > 0 THEN One ELSE IF x[1] < 0 THEN R(-1) ELSE Zero
RLt(x, y) == x[1] * y[2] < y[1] * x[2]
RLe(x, y) == x[1] * y[2] <= y[1] * x[2]
\* floor of a finite rational (Python's // on floats rounds toward -infinity)
RFloor(x) == x[1] \div x[2]
\* Python's float % : the result has the sign of the (positive) modulus
RMod(x, m) == RSub(x, RMul(m, R(RFloor(RDiv(x, m)))))

\* ------------------------------------------------------------------------
\* Vectors and matrices
\* ------------------------------------------------------------------------

\* f as a tuple: TLC keeps [i \in 1..n |-> e] unevaluated until it is applied,
\* a tuple holds its elements
Tup(f) == f \o <<>>

Zeros(n) == Tup([i \in 1..n |-> Zero])
NaNs(n) == Tup([i \in 1..n |-> NaN])
VAdd(u, v) == Tup([i \in 1..Len(u) |-> RAdd(u[i], v[i])])
VSub(u, v) == Tup([i \in 1..Len(u) |-> RSub(u[i], v[i])])
VScale(k, v) == Tup([i \in 1..Len(v) |-> RMul(k, v[i])])
VNeg(v) == Tup([i \in 1..Len(v) |-> RNeg(v[i])])
VFinite(v) == \A i \in 1..Len(v) : IsFinite(v[i])

RECURSIVE DotFrom(_, _, _)
DotFrom(u, v, i) ==
    IF i > Len(u) THEN Zero
    ELSE RAdd(RMul(u[i], v[i]), DotFrom(u, v, i + 1))
Dot(u, v) == DotFrom(u, v, 1)

Col(A, j) == Tup([i \in 1..Len(A) |-> A[i][j]])
Transpose(A) == Tup([j \in 1..Len(A[1]) |-> Col(A, j)])
MatVec(A, v) == Tup([i \in 1..Len(A) |-> Dot(A[i], v)])
MatMul(A, B) ==
    LET BT == Transpose(B)
    IN  Tup([i \in 1..Len(A) |-> Tup([j \in 1..Len(BT) |-> Dot(A[i], BT[j])])])
MatSub(A, B) ==
    Tup([i \in 1..Len(A) |-> Tup([j \in 1..Len(A[1]) |-> RSub(A[i][j], B[i][j])])])
MatScale(k, A) ==
    Tup([i \in 1..Len(A) |-> Tup([j \in 1..Len(A[1]) |-> RMul(k, A[i][j])])])
Eye(n) == Tup([i \in 1..n |-> Tup([j \in 1..n |-> IF i = j THEN One ELSE Zero])])
ZeroMat(r, c) == Tup([i \in 1..r |-> Tup([j \in 1..c |-> Zero])])

\* A without row i and column j
Minor(A, i, j) ==
    LET n == Len(A)
    IN  Tup([r \in 1..n - 1 |-> Tup([c \in 1..n - 1 |-> A[IF r < i THEN r ELSE r + 1][IF c < j THEN c ELSE c + 1]])])

RECURSIVE Det(_)
RECURSIVE DetFrom(_, _)
DetFrom(A, j) ==
    IF j > Len(A) THEN Zero
    ELSE LET t == IF A[1][j][1] = 0 THEN Zero
                  ELSE RMul(A[1][j], Det(Minor(A, 1, j)))
         IN  RAdd(IF j % 2 = 1 THEN t ELSE RNeg(t), DetFrom(A, j + 1))
Det(A) == IF Len(A) = 1 THEN A[1][1] ELSE DetFrom(A, 1)

Cofactor(A, i, j) ==
    LET d == IF Len(A) = 1 THEN One ELSE Det(Minor(A, i, j))
    IN  IF (i + j) % 2 = 0 THEN d ELSE RNeg(d)

\* inverse of a matrix with non-zero determinant: adj(A) / det(A)
Inverse(A) ==
    LET n == Len(A)
        d == Det(A)
    IN  Tup([i \in 1..n |-> Tup([j \in 1..n |-> RDiv(Cofactor(A, j, i), d)])])

\* ------------------------------------------------------------------------
\* The robot model: test doubles for the robot_config object the controller
\* queries.  "arm4" is a redundant 4-joint arm, "arm2" the planar 2-joint arm
\* whose 3-row position Jacobian has a zero z row.  Every double has integer
\* entries, so numpy's LU factorisation of it is exact and np.linalg.inv
\* raises LinAlgError exactly when the determinant is zero.
\* ------------------------------------------------------------------------

IV(s) == Tup([i \in 1..Len(s) |-> R(s[i])])
IM(A) == Tup([i \in 1..Len(A) |-> IV(A[i])])

Robots == {"arm4", "arm2"}
N_JOINTS(rb) == IF rb = "arm4" THEN 4 ELSE 2

\* joint configurations the caller passes as q; the first one is the zero
\* configuration the constructor uses
Q0(rb) == Zeros(N_JOINTS(rb))
QRegular == IV(<<1, 0, -1, 2>>)
QKinSingular == IV(<<0, 1, 0, 0>>)
QMassSingular == IV(<<0, 0, 3, 0>>)
Configurations(rb) ==
    IF rb = "arm4" THEN {Q0(rb), QRegular, QKinSingular, QMassSingular}
    ELSE {Q0(rb)}

\* np.pi
Pi == <<22, 7>>
\* REST_ANGLES: nan marks a joint without a rest angle
REST_ANGLES(rb) ==
    IF rb = "arm4" THEN <<Zero, NaN, One, NaN>> ELSE <<Zero, <<1, 2>>>>

\* robot_config.Tx(ref_frame, q, x=offset)
RobotTx(rb, q) ==
    IF rb = "arm2" THEN IV(<<2, 0, 0>>)
    ELSE CASE q = QRegular -> IV(<<0, 2, 1>>)
           [] q = QKinSingular -> IV(<<2, 2, 0>>)
           [] OTHER -> IV(<<1, 0, -1>>)

\* robot_config.J(ref_frame, q, x=offset)[:3]
RobotJ(rb, q) ==
    IF rb = "arm2" THEN IM(<<<<0, 0>>, <<2, 1>>, <<0, 0>>>>)
    ELSE CASE q = QRegular ->
                IM(<<<<1, 1, 0, 0>>, <<0, 1, 1, 0>>, <<0, 0, 1, 1>>>>)
           [] q = QKinSingular ->
                IM(<<<<1, 0, 0, 1>>, <<1, 0, 0, 1>>, <<0, 0, 1, 0>>>>)
           [] OTHER ->
                IM(<<<<1, 0, 0, 1>>, <<0, 1, 0, 0>>, <<0, 0, 1, 1>>>>)

\* robot_config.M(q): symmetric positive semi-definite
RobotM(rb, q) ==
    IF rb = "arm2" THEN IM(<<<<3, 1>>, <<1, 1>>>>)
    ELSE CASE q = QRegular ->
                IM(<<<<1, 0, 0, 0>>, <<0, 2, 0, 0>>,
                     <<0, 0, 1, 0>>, <<0, 0, 0, 1>>>>)
           [] q = QMassSingular ->
                IM(<<<<1, 1, 0, 0>>, <<1, 1, 0, 0>>,
                     <<0, 0, 1, 0>>, <<0, 0, 0, 1>>>>)
           [] OTHER ->
                IM(<<<<2, 1, 0, 0>>, <<1, 1, 0, 0>>,
                     <<0, 0, 1, 0>>, <<0, 0, 0, 1>>>>)

\* robot_config.g(q)
RobotG(rb, q) ==
    IF rb = "arm2" THEN IV(<<1, 1>>)
    ELSE IF q = QRegular THEN IV(<<0, 3, -1, 1>>) ELSE IV(<<1, 2, 0, -1>>)

\* robot_config.c(q, dq): quadratic in the joint velocities
RobotC(rb, q, dq) ==
    LET n == N_JOINTS(rb)
    IN  Tup([i \in 1..n |-> RMul(dq[i], dq[(i % n) + 1])])

\* robot_config.dJ(ref_frame, q, dq)[:3]: linear in the joint velocities
RobotdJ(rb, q, dq) ==
    LET n == N_JOINTS(rb)
    IN  Tup([r \in 1..3 |-> Tup([k \in 1..n |-> IF r = k THEN dq[k] ELSE Zero])])

\* ------------------------------------------------------------------------
\* numpy helpers used by the controller
\* ------------------------------------------------------------------------

\* np.sqrt: the root rounded down to a multiple of 1/4 (float64 rounds the
\* root too, to 53 bits); exact on the squares of such multiples
Sqrt(x) ==
    LET k == CHOOSE k \in 0..64 :
                 /\ k * k * x[2] <= 16 * x[1]
                 /\ (k + 1) * (k + 1) * x[2] > 16 * x[1]
    IN  Norm(k, 4)

\* np.linalg.inv: raises LinAlgError("Singular matrix") on a zero pivot
LinalgInv(A) ==
    IF Det(A) = Zero THEN [raised |-> TRUE, val |-> <<>>]
    ELSE [raised |-> FALSE, val |-> Inverse(A)]

\* np.linalg.pinv(A, rcond=.04) of a symmetric 3x3 matrix none of whose
\* non-zero singular values is under the cutoff: the Moore-Penrose inverse,
\* from the characteristic polynomial t^3 - c1 t^2 + c2 t - det
Pinv(A) ==
    LET c1 == RAdd(A[1][1], RAdd(A[2][2], A[3][3]))
        c2 == RAdd(Det(Minor(A, 1, 1)),
                   RAdd(Det(Minor(A, 2, 2)), Det(Minor(A, 3, 3))))
        B == MatSub(MatScale(c1, Eye(3)), A)
    IN  IF Det(A) # Zero THEN Inverse(A)
        ELSE IF c2 # Zero
             THEN MatScale(RDiv(One, RMul(c2, c2)), MatMul(A, MatMul(B, B)))
        ELSE IF c1 # Zero THEN MatScale(RDiv(One, RMul(c1, c1)), A)
        ELSE ZeroMat(3, 3)

\* x / y on float64 values that may be zero, infinite or nan.  negzero says
\* that a zero y is -0.0
XDiv(x, y, negzero) ==
    IF IsNaN(x) \/ IsNaN(y) THEN NaN
    ELSE IF ~IsFinite(x)
         THEN IF ~IsFinite(y) THEN NaN
              ELSE IF (y[1] < 0) \/ (y[1] = 0 /\ negzero) THEN RNeg(x) ELSE x
    ELSE IF ~IsFinite(y) THEN Zero
    ELSE IF y[1] = 0
         THEN IF x[1] = 0 THEN NaN
              ELSE IF (x[1] > 0) = negzero THEN NegInf ELSE PosInf
    ELSE RDiv(x, y)

\* x < y as numpy compares float64 values (False when either is nan)
XLt(x, y) ==
    IF IsNaN(x) \/ IsNaN(y) THEN FALSE
    ELSE IF x = y THEN FALSE
    ELSE IF x = NegInf \/ y = PosInf THEN TRUE
    ELSE IF x = PosInf \/ y = NegInf THEN FALSE
    ELSE RLt(x, y)

\* np.clip(x, 0, 1)
Clip01(x) ==
    IF IsNaN(x) THEN NaN
    ELSE IF XLt(x, Zero) THEN Zero
    ELSE IF XLt(One, x) THEN One
    ELSE x

\* x * y where x or y may be nan (neither is infinite)
XMul(x, y) == IF IsNaN(x) \/ IsNaN(y) THEN NaN ELSE RMul(x, y)

\* np.argmin: the first nan if there is one, else the first smallest entry
ArgMin(v) ==
    IF \E i \in 1..Len(v) : IsNaN(v[i])
    THEN CHOOSE i \in 1..Len(v) :
             IsNaN(v[i]) /\ \A j \in 1..(i - 1) : ~IsNaN(v[j])
    ELSE CHOOSE i \in 1..Len(v) :
             /\ \A j \in 1..Len(v) : ~XLt(v[j], v[i])
             /\ \A j \in 1..(i - 1) : XLt(v[i], v[j])

\* ------------------------------------------------------------------------
\* OSC.generate, stage by stage
\* ------------------------------------------------------------------------

\* None, for an optional argument or an attribute holding None
None == <<>>

\* lines 141-157: the task-space inertia matrix.  status is "ok" or the
\* exception raised, line the source line raising it
TaskInertia(M, J) ==
    LET mi == LinalgInv(M)
        M_inv == mi.val
        Mx_inv == MatMul(J, MatMul(M_inv, Transpose(J)))
        xi == LinalgInv(Mx_inv)
    IN  IF mi.raised
        THEN [status |-> "LinAlgError", line |-> 141, M_inv |-> None,
              Mx_inv |-> None, Mx |-> None, Mx_non_singular |-> "unchanged"]
        ELSE IF Det(M) # Zero
        THEN IF xi.raised
             THEN [status |-> "LinAlgError", line |-> 149, M_inv |-> M_inv,
                   Mx_inv |-> Mx_inv, Mx |-> None,
                   Mx_non_singular |-> "unchanged"]
             ELSE [status |-> "ok", line |-> 0, M_inv |-> M_inv,
                   Mx_inv |-> Mx_inv, Mx |-> xi.val,
                   Mx_non_singular |-> "Mx_inv"]
        ELSE [status |-> "ok", line |-> 0, M_inv |-> M_inv,
              Mx_inv |-> Mx_inv, Mx |-> Pinv(Mx_inv),
              Mx_non_singular |-> "None"]

\* a variant of line 166 that leaves lamb out: sat = vmax / |x_tilde|
SaturationWithoutLamb(c, x_tilde) ==
    Tup([i \in 1..3 |-> XDiv(c.vmax, RAbs(x_tilde[i]), FALSE)])

\* line 166: sat = vmax / (lamb * |x_tilde|); lamb * 0.0 is -0.0 for lamb < 0
Saturation(c, x_tilde) ==
    Tup([i \in 1..3 |-> XDiv(c.vmax, RMul(c.lamb, RAbs(x_tilde[i])), RLt(c.lamb, Zero))])

\* lines 167-174: the per-axis scale (its rounding to float32 is not
\* modelled)
LimiterScale(c, x_tilde, sat) ==
    IF \E i \in 1..3 : XLt(sat[i], One)
    THEN LET index == ArgMin(sat)
             unclipped == RMul(c.kp, x_tilde[index])
             clipped == RMul(RMul(c.kv, c.vmax), RSign(x_tilde[index]))
             s == XDiv(clipped, unclipped, FALSE)
         IN  Tup([i \in 1..3 |-> IF i = index THEN One ELSE s])
    ELSE Tup([i \in 1..3 |-> One])

\* lines 178-179: np.clip(sat / scale, 0, 1) * -lamb * scale * x_tilde
ApproachVelocity(c, x_tilde) ==
    LET sat == Saturation(c, x_tilde)
        scale == LimiterScale(c, x_tilde, sat)
    IN  Tup([i \in 1..3 |-> XMul(XMul(XMul(Clip01(XDiv(sat[i], scale[i], FALSE)),
                           RNeg(c.lamb)),
                      scale[i]),
                 x_tilde[i])])

\* lines 164-185: the task-space force from the position and velocity error;
\* nan on an axis whose approach velocity is nan
TaskForce(c, x_tilde, dx, target_vel) ==
    IF c.vmax # None
    THEN LET av == ApproachVelocity(c, x_tilde)
         IN  Tup([i \in 1..3 |-> IF IsNaN(av[i]) THEN NaN
                 ELSE RMul(RNeg(c.kv),
                           RSub(RSub(dx[i], target_vel[i]), av[i]))])
    ELSE VScale(RNeg(c.kp), x_tilde)

\* a variant of line 197 with the sign slipped: integrated_error -= x_tilde
IntegrateErrorSubtract(acc, x_tilde) == VSub(acc, x_tilde)

\* a variant of line 197 that runs twice
IntegrateErrorTwice(acc, x_tilde) == VAdd(VAdd(acc, x_tilde), x_tilde)

\* line 197: self.integrated_error += x_tilde
IntegrateError(acc, x_tilde) == VAdd(acc, x_tilde)

\* a variant of line 219 without the copy: self.training_signal = u, an
\* alias of the array the later lines update in place
TrainingSignalAlias(u, u_final) == u_final

\* line 219: self.training_signal = np.copy(u), u being the torque composed
\* so far and u_final what the same array holds when generate returns
TrainingSignal(u, u_final) == u

\* a variant of line 223 with the sign slipped: u += g
GravityCompensationAdd(u, g) == VAdd(u, g)

\* line 223: u -= self.robot_config.g(q=q)
GravityCompensation(u, g) == VSub(u, g)

\* lines 228-230: the wrapped distance to the rest angles, 0 where there is
\* no rest angle
RestDisplacement(rest, null_indices, q) ==
    Tup([i \in 1..Len(q) |-> IF null_indices[i]
        THEN RSub(RMod(RAdd(RSub(rest[i], q[i]), Pi), RMul(R(2), Pi)), Pi)
        ELSE Zero])

\* a variant of line 231 without the mask: self.dq_des[:] = dq
HoldVelocityAll(dq_des, null_indices, dq) == dq

\* line 231: self.dq_des[self.null_indices] = dq[self.null_indices]
HoldVelocity(dq_des, null_indices, dq) ==
    Tup([i \in 1..Len(dq) |-> IF null_indices[i] THEN dq[i] ELSE dq_des[i]])

\* a variant of line 235 that leaves M_inv out: Jbar = J^T Mx
NullFilterWithoutMinv(M_inv, J, Mx, n) ==
    MatSub(Eye(n), MatMul(Transpose(J), Transpose(MatMul(Transpose(J), Mx))))

\* lines 235-236: Jbar and the null-space filter
NullFilter(M_inv, J, Mx, n) ==
    LET Jbar == MatMul(M_inv, MatMul(Transpose(J), Mx))
    IN  MatSub(Eye(n), MatMul(Transpose(J), Transpose(Jbar)))

\* lines 187-193: u_task -= np.dot(dJ, dq)
JacobianDerivativeTerm(c, u_task, q, dq) ==
    IF c.use_dJ /\ VFinite(u_task)
    THEN VSub(u_task, MatVec(RobotdJ(c.robot, q, dq), dq))
    ELSE u_task

\* line 198: u_task -= self.ki * self.integrated_error
IntegralTerm(c, u_task, acc) ==
    IF c.ki # Zero /\ VFinite(u_task)
    THEN VSub(u_task, VScale(c.ki, acc))
    ELSE u_task

\* lines 201-202: u_task += ee_force
ForceOverlay(u_task, ee_force) ==
    IF ee_force # None /\ VFinite(u_task)
    THEN VAdd(u_task, ee_force)
    ELSE u_task

\* line 206: u = J^T Mx u_task; a nan axis of u_task makes every entry nan
InertiaWeighting(J, Mx, u_task) ==
    IF VFinite(u_task)
    THEN MatVec(Transpose(J), MatVec(Mx, u_task))
    ELSE NaNs(Len(J[1]))

\* a variant of lines 209-210 without the test of vmax
MomentumTermAlways(c, u, M, dq) ==
    IF VFinite(u) THEN VSub(u, MatVec(M, dq)) ELSE u

\* lines 209-210: without velocity limiting, u -= np.dot(M, dq)
MomentumTerm(c, u, M, dq) ==
    IF c.vmax = None /\ VFinite(u) THEN VSub(u, MatVec(M, dq)) ELSE u

\* lines 212-214: u -= self.robot_config.c(q=q, dq=dq)
CoriolisTerm(c, u, q, dq) ==
    IF c.use_C /\ VFinite(u) THEN VSub(u, RobotC(c.robot, q, dq)) ELSE u

\* lines 222-224
GravityTerm(c, u, g) ==
    IF c.use_g /\ VFinite(u) THEN GravityCompensation(u, g) ELSE u

\* line 233: u_null = M (nkp q_des - nkv dq_des)
NullTorque(c, M, q, dq_des) ==
    MatVec(M, VSub(VScale(c.nkp,
                          RestDisplacement(REST_ANGLES(c.robot),
                                           c.null_indices, q)),
                   VScale(c.nkv, dq_des)))

\* line 238: u += np.dot(null_filter, u_null)
NullTerm(c, u, null_torque) ==
    IF c.null_control /\ VFinite(u) THEN VAdd(u, null_torque) ELSE u

\* what a call that raised leaves behind: no attribute that outlives the
\* call has been assigned yet at lines 141 and 149
Raised(c, acc, ti) ==
    [status |-> ti.status, line |-> ti.line, u |-> None,
     integrated_error |-> acc, dq_des |-> c.dq_des,
     training_signal |-> None, Mx_non_singular |-> c.Mx_non_singular,
     x_tilde |-> None, u_task |-> None, approach |-> None, M_inv |-> None,
     Mx |-> None, g |-> None, null_filter |-> None, null_torque |-> None]

\* lines 219-240 and the return: u_c is the torque when the training signal
\* is taken, u the torque returned
Returned(c, ti, acc, dq_des, x_tilde, u_task, u_c, g, null_filter, null_torque, u) ==
    [status |-> "ok", line |-> 0, u |-> u,
     integrated_error |-> acc, dq_des |-> dq_des,
     training_signal |-> TrainingSignal(u_c, u),
     Mx_non_singular |-> ti.Mx_non_singular,
     x_tilde |-> x_tilde, u_task |-> u_task,
     approach |-> IF c.vmax # None THEN ApproachVelocity(c, x_tilde)
                  ELSE None,
     M_inv |-> ti.M_inv, Mx |-> ti.Mx, g |-> g,
     null_filter |-> IF c.null_control THEN null_filter ELSE None,
     null_torque |-> IF c.null_control THEN null_torque ELSE None]

\* lines 226-240
NullStage(c, ti, acc, dq_des, x_tilde, u_task, u_c, g, null_filter, null_torque) ==
    Returned(c, ti, acc, dq_des, x_tilde, u_task, u_c, g, null_filter,
             null_torque,
             NullTerm(c, GravityTerm(c, u_c, g), null_torque))

\* lines 204-238
TorqueStage(c, inp, J, M, ti, acc, dq_des, x_tilde, u_task) ==
    NullStage(c, ti, acc, dq_des, x_tilde, u_task,
              CoriolisTerm(c,
                  MomentumTerm(c, InertiaWeighting(J, ti.Mx, u_task),
                               M, inp.dq),
                  inp.q, inp.dq),
              RobotG(c.robot, inp.q),
              NullFilter(ti.M_inv, J, ti.Mx, Len(M)),
              MatVec(NullFilter(ti.M_inv, J, ti.Mx, Len(M)),
                     NullTorque(c, M, inp.q, dq_des)))

\* lines 159-202
ForceStage(c, acc, inp, J, M, ti, x_tilde, acc1) ==
    IF ti.status # "ok" THEN Raised(c, acc, ti)
    ELSE TorqueStage(c, inp, J, M, ti, acc1,
             IF c.null_control
             THEN HoldVelocity(c.dq_des, c.null_indices, inp.dq)
             ELSE c.dq_des,
             x_tilde,
             ForceOverlay(
                 IntegralTerm(c,
                     JacobianDerivativeTerm(c,
                         TaskForce(c, x_tilde, MatVec(J, inp.dq),
                                   inp.target_vel),
                         inp.q, inp.dq),
                     acc1),
                 inp.ee_force))

\* lines 127-162
InertiaStage(c, acc, inp, J, M, x_tilde) ==
    ForceStage(c, acc, inp, J, M, TaskInertia(M, J), x_tilde,
               IF c.ki # Zero THEN IntegrateError(acc, x_tilde) ELSE acc)

\* lines 103-240: one call of generate on controller c, whose accumulator
\* array holds acc.  inp is [q, dq, target_pos, target_vel, ee_force].
\* The result gives the outcome (status "ok" and the returned torque u, or
\* the exception), the new values of the attributes later calls read
\* (integrated_error, dq_des) and of the well-conditioned flag
\* Mx_non_singular, and the attributes the call only writes for its caller
\* to read: training_signal and the intermediates (None when the call
\* raised before assigning them).
GenerateCall(c, acc, inp) ==
    InertiaStage(c, acc, inp, RobotJ(c.robot, inp.q), RobotM(c.robot, inp.q),
                 VSub(RobotTx(c.robot, inp.q), inp.target_pos))

\* ------------------------------------------------------------------------
\* OSC.__init__
\* ------------------------------------------------------------------------

\* lines 51-72: the attributes set before the constructor's generate call.
\* p is the argument record, ref the array self.integrated_error refers to
Attributes(p, ref) ==
    LET kv == IF p.kv = None THEN Sqrt(p.kp) ELSE p.kv
        nkp == RMul(p.kp, <<1, 10>>)
        n == N_JOINTS(p.robot)
    IN  [robot |-> p.robot, kp |-> p.kp, kv |-> kv, ki |-> p.ki,
         vmax |-> p.vmax, lamb |-> RDiv(p.kp, kv),
         null_control |-> p.null_control, use_g |-> p.use_g,
         use_C |-> p.use_C, use_dJ |-> p.use_dJ,
         integrated_error |-> ref,
         null_indices |-> Tup([i \in 1..n |-> ~IsNaN(REST_ANGLES(p.robot)[i])]),
         dq_des |-> Zeros(n), nkp |-> nkp, nkv |-> Sqrt(nkp),
         Mx_non_singular |-> "unset"]

\* lines 82-85: the arguments of the constructor's own generate call
WarmUpInput(rb) ==
    [q |-> Zeros(N_JOINTS(rb)), dq |-> Zeros(N_JOINTS(rb)),
     target_pos |-> Zeros(3), target_vel |-> Zeros(3), ee_force |-> None]

\* ------------------------------------------------------------------------
\* State
\* ------------------------------------------------------------------------

VARIABLES
    ctrl,   \* per controller instance: construction outcome and attributes
    arr,    \* the 3-element arrays integrated_error attributes refer to
    last,   \* per instance: the caller's latest generate call, its outcome
            \* and the attributes it wrote for the caller to read
    signs,  \* per instance with an integral term: the per-axis signs of the
            \* position errors of the caller's calls that returned so far
    disk,   \* the session folder of saved weights: for each run number the
            \* version of the weights in run<n>.npz, 0 where no file exists
    wio     \* the latest save_weights or load_weights call and its outcome

vars == <<ctrl, arr, last, signs, disk, wio>>

Inst == {1, 2}
\* arrays the caller owns and may pass as integrated_error
CallerArrays == {"a", "b"}
\* the array line 62 allocates for instance i
OwnArray(i) == IF i = 1 THEN "own1" ELSE "own2"
ArrayIds == CallerArrays \cup {OwnArray(i) : i \in Inst}

\* bound of the model: generate calls that would take an accumulator entry
\* past it are not explored
MaxAcc == 3

\* the signs of a position error, and what signs holds once two calls
\* differed in them
SignsOf(x_tilde) == Tup([k \in 1..3 |-> RSign(x_tilde[k])[1]])
Mixed == <<2, 2, 2>>

\* bounds of the model: the highest run number of a weights file, and the
\* number of save_weights calls
MaxRun == 3
MaxSaves == 3

\* the run argument of weights_location: None, or a run number
RunArgs ==
    {[given |-> FALSE, n |-> 0]} \cup {[given |-> TRUE, n |-> r] : r \in 0..MaxRun}
NoWeightsCall ==
    [op |-> "none", run |-> [given |-> FALSE, n |-> 0], run_num |-> -1,
     file |-> -1, existed |-> FALSE, version |-> 0]

NoController == [state |-> "none", error |-> "", args |-> None, obj |-> None]
NoCall == [called |-> FALSE, inp |-> None, pre_acc |-> None,
           pre_dq_des |-> None, res |-> None]

\* values the caller's arrays hold before any controller is built
InitialErrors == {IV(<<-3, 0, 1>>)}

Init ==
    /\ ctrl = [i \in Inst |-> NoController]
    /\ \E e \in InitialErrors :
          arr = [id \in ArrayIds |-> IF id \in CallerArrays THEN e ELSE Zeros(3)]
    /\ last = [i \in Inst |-> NoCall]
    /\ signs = [i \in Inst |-> None]
    /\ disk = [n \in 0..(MaxRun + 1) |-> 0]
    /\ wio = NoWeightsCall

\* ------------------------------------------------------------------------
\* Operations
\* ------------------------------------------------------------------------

\* OSC(robot_config, kp, kv, ki, vmax, null_control, use_g, use_C, use_dJ,
\*     integrated_error) for instance i (lines 45-85)
Construct(i, p) ==
    /\ ctrl[i].state = "none"
    /\ LET kv == IF p.kv = None THEN Sqrt(p.kp) ELSE p.kv
           fresh == p.integrated_error = "None"
           ref == IF fresh THEN OwnArray(i) ELSE p.integrated_error
           acc0 == IF fresh THEN Zeros(3) ELSE arr[ref]
       IN  IF kv = Zero
           THEN \* line 55: kp / kv
                /\ ctrl' = [ctrl EXCEPT ![i] =
                              [state |-> "failed",
                               error |-> "ZeroDivisionError",
                               args |-> p, obj |-> None]]
                /\ UNCHANGED arr
           ELSE \E c0 \in {Attributes(p, ref)} :
                \E r \in {GenerateCall(c0, acc0, WarmUpInput(p.robot))} :
                    IF r.status # "ok"
                    THEN /\ ctrl' = [ctrl EXCEPT ![i] =
                                       [state |-> "failed",
                                        error |-> r.status,
                                        args |-> p, obj |-> None]]
                         /\ UNCHANGED arr
                    ELSE /\ ctrl' = [ctrl EXCEPT ![i] =
                                       [state |-> "built", error |-> "",
                                        args |-> p,
                                        obj |-> [c0 EXCEPT
                                          !.dq_des = r.dq_des,
                                          !.Mx_non_singular = r.Mx_non_singular]]]
                         /\ arr' = [arr EXCEPT ![ref] = r.integrated_error]
    /\ UNCHANGED <<last, signs, disk, wio>>

\* controller i's generate(q, dq, target_pos, target_vel, ee_force=...)
\* called by the control loop (lines 103-240)
Generate(i, inp) ==
    /\ ctrl[i].state = "built"
    /\ ~last[i].called
    /\ LET c == ctrl[i].obj
           acc == arr[c.integrated_error]
       IN  \E r \in {GenerateCall(c, acc, inp)} :
           /\ \A k \in 1..3 : RLe(RAbs(r.integrated_error[k]), R(MaxAcc))
           /\ ctrl' = [ctrl EXCEPT ![i].obj =
                         [c EXCEPT !.dq_des = r.dq_des,
                                   !.Mx_non_singular = r.Mx_non_singular]]
           /\ arr' = [arr EXCEPT ![c.integrated_error] = r.integrated_error]
           /\ last' = [last EXCEPT ![i] =
                         [called |-> TRUE, inp |-> inp, pre_acc |-> acc,
                          pre_dq_des |-> c.dq_des, res |-> r]]
           /\ signs' = IF r.status = "ok" /\ c.ki # Zero
                       THEN [signs EXCEPT ![i] =
                               IF signs[i] \in {None, SignsOf(r.x_tilde)}
                               THEN SignsOf(r.x_tilde) ELSE Mixed]
                       ELSE signs
           /\ UNCHANGED <<disk, wio>>

\* lines 87-101: the dictionary the params property returns
ParamsOf(c) ==
    [source |-> "OSC", kp |-> c.kp, kv |-> c.kv, ki |-> c.ki,
     vmax |-> c.vmax, lamb |-> c.lamb, null_control |-> c.null_control,
     use_g |-> c.use_g, use_C |-> c.use_C, use_dJ |-> c.use_dJ,
     nkv |-> c.nkv, nkp |-> c.nkp]

\* the caller reads controller i's params (lines 87-101)
Params(i) ==
    /\ ctrl[i].state = "built"
    /\ ~last[i].called
    /\ last' = [last EXCEPT ![i] =
                  [called |-> TRUE, inp |-> None,
                   pre_acc |-> arr[ctrl[i].obj.integrated_error],
                   pre_dq_des |-> ctrl[i].obj.dq_des,
                   res |-> [status |-> "params",
                            params |-> ParamsOf(ctrl[i].obj)]]]
    /\ UNCHANGED <<ctrl, arr, signs, disk, wio>>

\* the control loop takes the torque (or the exception) of its latest call
\* and goes on to the next tick
Consume(i) ==
    /\ last[i].called
    /\ last' = [last EXCEPT ![i] = NoCall]
    /\ UNCHANGED <<ctrl, arr, signs, disk, wio>>

\* ------------------------------------------------------------------------
\* DynamicsAdaptation: saving and loading weights
\* (controllers/signals/dynamics_adaptation.py), for a given session and
\* test_name
\* ------------------------------------------------------------------------

\* lines 352-359: the numbers of the run<n>.npz files found by glob
SavedRuns(d) == {n \in DOMAIN d : d[n] # 0}

\* lines 352-365: the run number weights_location returns
WeightsLocation(d, run) ==
    IF ~run.given
    THEN IF SavedRuns(d) # {}
         THEN CHOOSE n \in SavedRuns(d) : \A k \in SavedRuns(d) : k <= n
         ELSE -1
    ELSE run.n

\* lines 377-396: the number of the file save_weights writes
SavedFile(d, run) == WeightsLocation(d, run) + 1

\* lines 406-413: the number of the file load_weights names, -1 for None
LoadedFile(d, run) == WeightsLocation(d, run)

\* save_weights(session=s, run=run, test_name=t) (lines 367-396)
SaveWeights(run) ==
    /\ wio.version < MaxSaves
    /\ SavedFile(disk, run) \in DOMAIN disk
    /\ disk' = [disk EXCEPT ![SavedFile(disk, run)] = wio.version + 1]
    /\ wio' = [op |-> "save", run |-> run,
               run_num |-> WeightsLocation(disk, run),
               file |-> SavedFile(disk, run),
               existed |-> disk[SavedFile(disk, run)] # 0,
               version |-> wio.version + 1]
    /\ UNCHANGED <<ctrl, arr, last, signs>>

\* load_weights(session=s, run=run, test_name=t) (lines 398-413)
LoadWeights(run) ==
    /\ disk' = disk
    /\ wio' = [op |-> "load", run |-> run,
               run_num |-> WeightsLocation(disk, run),
               file |-> LoadedFile(disk, run),
               existed |-> IF LoadedFile(disk, run) = -1 THEN FALSE
                           ELSE disk[LoadedFile(disk, run)] # 0,
               version |-> wio.version]
    /\ UNCHANGED <<ctrl, arr, last, signs>>

NextWeights ==
    \/ \E run \in RunArgs : SaveWeights(run)
    \/ \E run \in RunArgs : LoadWeights(run)

\* ------------------------------------------------------------------------
\* Arguments the model draws
\* ------------------------------------------------------------------------

Args(robots, kvs, kis, vmaxs, flags, ies) ==
    [robot : robots, kp : {R(10)}, kv : kvs, ki : kis, vmax : vmaxs,
     null_control : flags, use_g : flags, use_C : flags, use_dJ : flags,
     integrated_error : ies]

Targets == {Zeros(3), IV(<<1, 0, -1>>), IV(<<0, 2, 1>>), IV(<<-2, 0, -1>>)}
Inputs(qs, dqs, targets, vels, forces) ==
    [q : qs, dq : dqs, target_pos : targets, target_vel : vels,
     ee_force : forces]

\* every flag setting and gain, no integral term
MainArgs ==
    Args(Robots, {None, R(5), Zero, R(-1)}, {Zero}, {None, R(2)}, BOOLEAN,
         {"None"})
MainInputs ==
    Inputs(Configurations("arm4"), {Zeros(4), IV(<<1, 0, 1, -1>>)}, Targets,
           {Zeros(3), IV(<<1, 1, 0>>)}, {None, IV(<<1, 0, 0>>)})

Next ==
    \/ \E p \in MainArgs : Construct(1, p)
    \/ \E inp \in MainInputs : Generate(1, inp)
    \/ Consume(1)

Spec == Init /\ [][Next]_vars

\* ------------------------------------------------------------------------
\* A controller with an integral term, built on a fresh or on a
\* caller-supplied accumulator
\* ------------------------------------------------------------------------

IntegralArgs ==
    {p \in Args({"arm4"}, {R(5)}, {Zero, R(2)}, {None}, BOOLEAN, {"None", "a"}) :
        ~p.use_g /\ ~p.use_C /\ ~p.use_dJ}
IntegralInputs ==
    Inputs(Configurations("arm4"), {Zeros(4)}, Targets, {Zeros(3)},
           {None, IV(<<1, 0, 0>>)})

NextIntegral ==
    \/ \E p \in IntegralArgs : Construct(1, p)
    \/ \E inp \in IntegralInputs : Generate(1, inp)
    \/ Params(1)
    \/ Consume(1)

SpecIntegral == Init /\ [][NextIntegral]_vars

\* ------------------------------------------------------------------------
\* Two controllers that differ only in use_g, called in lockstep on the
\* same inputs
\* ------------------------------------------------------------------------

PairArgs ==
    {p \in Args({"arm4"}, {R(5)}, {Zero, R(2)}, {None, R(2)}, BOOLEAN,
                {"None"}) : p.use_g}
PairInputs ==
    Inputs({Q0("arm4"), QRegular}, {Zeros(4), IV(<<1, 0, 1, -1>>)},
           {Zeros(3), IV(<<1, 0, -1>>)}, {Zeros(3)}, {None})

\* the arguments of the second controller
Twin(p) == [p EXCEPT !.use_g = ~p.use_g]

\* the second controller is built once the first is
ConstructTwin ==
    /\ ctrl[1].state = "built"
    /\ Construct(2, Twin(ctrl[1].args))

\* a tick of the control loop: it calls the first controller ...
GenerateFirst(inp) ==
    /\ ctrl[2].state = "built"
    /\ ~last[2].called
    /\ Generate(1, inp)

\* ... and then the second one with the same arguments,
GenerateSecond ==
    /\ last[1].called
    /\ Generate(2, last[1].inp)

\* and takes the two outcomes before the next tick
ConsumeFirst ==
    /\ last[2].called
    /\ Consume(1)

ConsumeSecond ==
    /\ ~last[1].called
    /\ Consume(2)

NextPair ==
    \/ \E p \in PairArgs : Construct(1, p)
    \/ ConstructTwin
    \/ \E inp \in PairInputs : GenerateFirst(inp)
    \/ GenerateSecond
    \/ ConsumeFirst
    \/ ConsumeSecond

SpecPair == Init /\ [][NextPair]_vars

\* ------------------------------------------------------------------------
\* Two controllers with integral terms, built on fresh arrays or on arrays
\* of the caller (possibly the same one), called in any interleaving
\* ------------------------------------------------------------------------

SharedArgs ==
    {p \in Args({"arm4"}, {R(5)}, {R(2)}, {None}, BOOLEAN, {"None", "a"}) :
        p.null_control /\ ~p.use_g /\ ~p.use_C /\ ~p.use_dJ}
SharedInputs ==
    Inputs({Q0("arm4")}, {Zeros(4), IV(<<1, 0, 1, -1>>)}, {Zeros(3)},
           {Zeros(3)}, {None})

NextShared ==
    \/ \E i \in Inst : \E p \in SharedArgs : Construct(i, p)
    \/ \E i \in Inst : \E inp \in SharedInputs : Generate(i, inp)
    \/ \E i \in Inst : Consume(i)

SpecShared == Init /\ [][NextShared]_vars

SpecWeights == Init /\ [][NextWeights]_vars

\* ------------------------------------------------------------------------
\* Properties
\* ------------------------------------------------------------------------

\* controller i's latest call, made by the control loop, has not been
\* consumed yet
Called(i) == ctrl[i].state = "built" /\ last[i].called
\* ... and it returned a torque
CallReturned(i) == Called(i) /\ last[i].res.status = "ok"
\* the step is a generate call of controller i
GenerateStep(i) ==
    /\ ctrl[i].state = "built"
    /\ ~last[i].called /\ last'[i].called
    /\ last'[i].res.status # "params"

CallJ(i) == RobotJ(ctrl[i].obj.robot, last[i].inp.q)
CallM(i) == RobotM(ctrl[i].obj.robot, last[i].inp.q)

\* C1 (as the specification states it): a generate call on a configuration
\* whose mass matrix has determinant 0 does not raise; it returns a torque
\* and leaves the well-conditioned flag Mx_non_singular cleared (None).
\* The code inverts M at line 141 before it tests the determinant at line
\* 148, so the call raises LinAlgError and the flag keeps its earlier value.
C1_SingularMassCompletes ==
    \A i \in Inst :
        (Called(i) /\ Det(CallM(i)) = Zero)
            => /\ last[i].res.status = "ok"
               /\ ctrl[i].obj.Mx_non_singular = "None"

\* C2: with vmax, kp and kv positive, every axis of the clipped
\* approach-velocity term clip(sat/scale, 0, 1) * (-lamb * scale * x_tilde) of
\* a generate call is finite and of magnitude at most vmax.
C2_ApproachWithinVmax ==
    \A i \in Inst :
        (/\ CallReturned(i)
         /\ ctrl[i].obj.vmax # None
         /\ RLt(Zero, ctrl[i].obj.vmax)
         /\ RLt(Zero, ctrl[i].obj.kp)
         /\ RLt(Zero, ctrl[i].obj.kv))
            => \A k \in 1..3 :
                  /\ IsFinite(last[i].res.approach[k])
                  /\ RLe(RAbs(last[i].res.approach[k]), ctrl[i].obj.vmax)

\* C2's case: a call with a saturated axis commanded at vmax, an axis with
\* zero error and an axis scaled below vmax
C2_Witness ==
    /\ CallReturned(1)
    /\ ctrl[1].obj.vmax # None
    /\ RLt(Zero, ctrl[1].obj.kv)
    /\ \E k \in 1..3 :
          /\ RLt(ctrl[1].obj.vmax,
                 RMul(ctrl[1].obj.lamb, RAbs(last[1].res.x_tilde[k])))
          /\ RAbs(last[1].res.approach[k]) = ctrl[1].obj.vmax
    /\ \E k \in 1..3 : last[1].res.x_tilde[k] = Zero
    /\ \E k \in 1..3 :
          /\ last[1].res.approach[k] # Zero
          /\ RLt(RAbs(last[1].res.approach[k]), ctrl[1].obj.vmax)

\* the two controllers were built from arguments that differ only in use_g
\* and their latest calls started from the same accumulator and held
\* velocities, on the same inputs
LockstepCalls ==
    /\ CallReturned(1) /\ CallReturned(2)
    /\ ctrl[2].args = Twin(ctrl[1].args)
    /\ last[1].inp = last[2].inp
    /\ last[1].pre_acc = last[2].pre_acc
    /\ last[1].pre_dq_des = last[2].pre_dq_des

\* C3: two controllers that differ only in use_g, from the same accumulator
\* and held-velocity state and on the same inputs, return torques whose
\* difference (without compensation minus with compensation) is g(q).
C3_GravityDifference ==
    LockstepCalls =>
        LET on == IF ctrl[1].obj.use_g THEN 1 ELSE 2
            off == IF ctrl[1].obj.use_g THEN 2 ELSE 1
        IN  VSub(last[off].res.u, last[on].res.u)
                = RobotG(ctrl[1].obj.robot, last[1].inp.q)

\* C3's case: a lockstep pair with the integral term, the limiter and
\* null-space control on, moving joints and a non-zero accumulator
C3_Witness ==
    /\ LockstepCalls
    /\ ctrl[1].obj.ki # Zero
    /\ ctrl[1].obj.vmax # None
    /\ ctrl[1].obj.null_control /\ ctrl[1].obj.use_C /\ ctrl[1].obj.use_dJ
    /\ last[1].inp.dq # Zeros(4)
    /\ last[1].pre_acc # Zeros(3)
    /\ last[1].res.u # last[2].res.u

\* a call that got as far as the null-space filter
FilterBuilt(i) == CallReturned(i) /\ ctrl[i].obj.null_control

\* C4 (as the specification states it): the null-space filter built by a
\* generate call with an invertible M and a full-row-rank J satisfies
\* J * filter = 0.
C4_JFilterIsZero ==
    \A i \in Inst :
        FilterBuilt(i) =>
            MatMul(CallJ(i), last[i].res.null_filter)
                = ZeroMat(3, N_JOINTS(ctrl[i].obj.robot))

\* C4 (amended): for the symmetric M of a robot model, the filter satisfies
\* J * M_inv * filter = 0 (a filtered torque causes no task-space
\* acceleration) and filter * J^T = 0 (it removes every torque of the form
\* J^T F).
C4_FilterIsDynamicallyConsistent ==
    \A i \in Inst :
        FilterBuilt(i) =>
            /\ MatMul(CallJ(i), MatMul(last[i].res.M_inv,
                                       last[i].res.null_filter))
                  = ZeroMat(3, N_JOINTS(ctrl[i].obj.robot))
            /\ MatMul(last[i].res.null_filter, Transpose(CallJ(i)))
                  = ZeroMat(N_JOINTS(ctrl[i].obj.robot), 3)

\* C4's case: a filter that is not the zero matrix, built for a mass matrix
\* that is not diagonal, with a non-zero filtered null-space torque
C4_Witness ==
    /\ FilterBuilt(1)
    /\ CallM(1)[1][2] # Zero
    /\ last[1].res.null_filter
          # ZeroMat(N_JOINTS(ctrl[1].obj.robot), N_JOINTS(ctrl[1].obj.robot))
    /\ last[1].res.null_torque # Zeros(N_JOINTS(ctrl[1].obj.robot))

\* a call with positive gains, the integral term, null-space control,
\* gravity and Coriolis compensation off, no external force, zero position
\* error and zero velocity error
ZeroErrorCall(i) ==
    /\ CallReturned(i)
    /\ RLt(Zero, ctrl[i].obj.kp) /\ RLt(Zero, ctrl[i].obj.kv)
    /\ ctrl[i].obj.ki = Zero
    /\ ~ctrl[i].obj.null_control /\ ~ctrl[i].obj.use_g /\ ~ctrl[i].obj.use_C
    /\ last[i].inp.ee_force = None
    /\ last[i].res.x_tilde = Zeros(3)
    /\ MatVec(CallJ(i), last[i].inp.dq) = last[i].inp.target_vel

\* C5 (as the specification states it): a call with zero position and
\* velocity error and every other term off returns the zero torque, with
\* and without vmax.
C5_ZeroErrorZeroTorque ==
    \A i \in Inst :
        ZeroErrorCall(i) => last[i].res.u = Zeros(N_JOINTS(ctrl[i].obj.robot))

\* C5 (amended): such a call, with use_dJ off too, returns the zero torque
\* when vmax is set and -M(q) dq when vmax is None.
C5_ZeroErrorTorque ==
    \A i \in Inst :
        (ZeroErrorCall(i) /\ ~ctrl[i].obj.use_dJ) =>
            last[i].res.u =
                IF ctrl[i].obj.vmax # None
                THEN Zeros(N_JOINTS(ctrl[i].obj.robot))
                ELSE VNeg(MatVec(CallM(i), last[i].inp.dq))

\* C5's case: zero errors with moving joints and vmax None, where the
\* returned torque is not zero
C5_Witness ==
    /\ ZeroErrorCall(1) /\ ~ctrl[1].obj.use_dJ
    /\ ctrl[1].obj.vmax = None
    /\ last[1].inp.dq # Zeros(4)
    /\ last[1].inp.target_vel # Zeros(3)
    /\ last[1].res.u # Zeros(4)

\* the accumulator of controller i
Accumulator(i) == arr[ctrl[i].obj.integrated_error]

C7_TrainingSignalSnapshot ==
    \A i \in Inst :
        (CallReturned(i) /\ VFinite(last[i].res.u)) =>
            last[i].res.training_signal =
                VSub(IF ctrl[i].obj.use_g
                     THEN VAdd(last[i].res.u, last[i].res.g)
                     ELSE last[i].res.u,
                     IF ctrl[i].obj.null_control
                     THEN last[i].res.null_torque
                     ELSE Zeros(N_JOINTS(ctrl[i].obj.robot)))

\* C7's case: gravity compensation and a non-zero null-space torque were
\* both applied after the snapshot, with the momentum and Coriolis terms
\* before it
C7_Witness ==
    /\ CallReturned(1) /\ VFinite(last[1].res.u)
    /\ ctrl[1].obj.use_g /\ ctrl[1].obj.null_control /\ ctrl[1].obj.use_C
    /\ ctrl[1].obj.vmax = None
    /\ last[1].inp.dq # Zeros(4)
    /\ last[1].res.null_torque # Zeros(4)
    /\ last[1].res.training_signal # last[1].res.u
    /\ last[1].res.training_signal # VAdd(last[1].res.u, last[1].res.g)

\* the position Jacobian is rank-deficient
RankDeficient(J) == Det(MatMul(J, Transpose(J))) = Zero

\* C8 (as the specification states it): a generate call at a kinematic
\* singularity with an invertible M does not raise; it clears the
\* well-conditioned flag and returns a finite torque.  The code chooses the
\* pseudo-inverse by det(M), so it inverts the singular Mx_inv at line 149.
C8_KinematicSingularityCompletes ==
    \A i \in Inst :
        (Called(i) /\ Det(CallM(i)) # Zero /\ RankDeficient(CallJ(i)))
            => /\ last[i].res.status = "ok"
               /\ ctrl[i].obj.Mx_non_singular = "None"
               /\ VFinite(last[i].res.u)

\* C9 (as the specification states it): a constructor call with kv <= 0 is
\* rejected; no controller with such a gain is created.
C9_NonPositiveKvRejected ==
    \A i \in Inst :
        (/\ ctrl[i].state # "none"
         /\ ctrl[i].args.kv # None
         /\ RLe(ctrl[i].args.kv, Zero))
            => ctrl[i].state = "failed"

\* C10 (as the specification states it): when the constructor returns, the
\* accumulator is the zero vector if no initial value was passed and else
\* holds the value the caller passed.
C10_AccumulatorAtConstruction ==
    [][\A i \in Inst :
          (ctrl[i].state = "none" /\ ctrl'[i].state = "built")
              => IF ctrl'[i].args.integrated_error = "None"
                 THEN arr'[OwnArray(i)] = Zeros(3)
                 ELSE arr'[ctrl'[i].args.integrated_error]
                         = arr[ctrl'[i].args.integrated_error]
      ]_vars

\* C11 (as the specification states it): a generate call on one controller
\* changes neither the accumulator nor the held velocity dq_des of another
\* controller.  Line 64 stores the caller's array itself, so two controllers
\* built on the same array share one accumulator.
C11_InstancesIndependent ==
    [][\A i \in Inst : \A j \in Inst \ {i} :
          (GenerateStep(i) /\ ctrl[j].state = "built")
              => /\ Accumulator(j)' = Accumulator(j)
                 /\ ctrl'[j].obj.dq_des = ctrl[j].obj.dq_des
      ]_vars

\* C12 (as the specification states it): save_weights with run = r writes
\* run r, so that load_weights with the same run names the file just
\* written; with run = None it writes the run one above the highest saved
\* one and overwrites no file.  The code writes run r + 1 for run = r, and
\* load_weights names run r.
C12_SaveWritesTheRunLoadNames ==
    wio.op = "save" =>
        IF wio.run.given
        THEN /\ wio.file = wio.run.n
             /\ LoadedFile(disk, wio.run) = wio.file
             /\ disk[LoadedFile(disk, wio.run)] = wio.version
        ELSE /\ wio.file = wio.run_num + 1
             /\ ~wio.existed

\* the limiter of controller i's latest call found an axis saturated
Saturated(i) ==
    \E k \in 1..3 :
        XLt(Saturation(ctrl[i].obj, last[i].res.x_tilde)[k], One)

\* the approach velocity of controller i's latest call is a non-negative
\* multiple of -x_tilde, of magnitude vmax on the axis argmin(sat)
LimitedAlongError(i) ==
    LET e == last[i].res.x_tilde
        v == last[i].res.approach
        idx == ArgMin(Saturation(ctrl[i].obj, e))
    IN  /\ \A k \in 1..3 : IsFinite(v[k]) /\ RLe(RMul(v[k], e[k]), Zero)
        /\ \A k \in 1..3 : \A l \in 1..3 :
              IsFinite(v[k]) /\ IsFinite(v[l])
                  => RMul(v[k], e[l]) = RMul(v[l], e[k])
        /\ \A k \in 1..3 : e[k] = Zero => v[k] = Zero
        /\ RAbs(v[idx]) = ctrl[i].obj.vmax

\* C13 (as the specification states it): with vmax set, when some axis is
\* saturated the approach velocity is one non-negative multiple of -x_tilde
\* on all axes and has magnitude vmax on the axis argmin(sat); when none
\* is, it is -lamb * x_tilde.  A controller built with kv < 0 (see C9) has
\* lamb < 0 and breaks both parts.
C13_DirectionPreserved ==
    \A i \in Inst :
        (CallReturned(i) /\ ctrl[i].obj.vmax # None) =>
            IF Saturated(i)
            THEN LimitedAlongError(i)
            ELSE last[i].res.approach
                    = VScale(RNeg(ctrl[i].obj.lamb), last[i].res.x_tilde)

\* the step is a generate call of controller i that returned, with ki # 0
GenerateAdds(i) ==
    /\ GenerateStep(i)
    /\ last'[i].res.status = "ok"
    /\ ctrl[i].obj.ki # Zero

\* the step builds controller i with ki # 0: its constructor ran generate
ConstructAdds(i) ==
    /\ ctrl[i].state = "none" /\ ctrl'[i].state = "built"
    /\ ctrl'[i].obj.ki # Zero

\* C14: an accumulator array changes only in a generate call (a caller's, or
\* the constructor's own) of a controller with ki # 0 that holds it, which
\* adds the call's position error once, and the integral force of that call
\* is -ki times the new value; calls with ki = 0, params, the external
\* force and the null-space step leave every accumulator as it was.
C14_AccumulatorFrame ==
    [][/\ \A id \in ArrayIds :
             (\A i \in Inst :
                 /\ ~(GenerateAdds(i) /\ ctrl[i].obj.integrated_error = id)
                 /\ ~(ConstructAdds(i) /\ ctrl'[i].obj.integrated_error = id))
                 => arr'[id] = arr[id]
       /\ \A i \in Inst :
             GenerateAdds(i) =>
                 /\ Accumulator(i)' = VAdd(Accumulator(i), last'[i].res.x_tilde)
                 /\ (ctrl[i].obj.vmax = None /\ ~ctrl[i].obj.use_dJ) =>
                        last'[i].res.u_task =
                            ForceOverlay(
                                VSub(VScale(RNeg(ctrl[i].obj.kp),
                                            last'[i].res.x_tilde),
                                     VScale(ctrl[i].obj.ki, Accumulator(i)')),
                                last'[i].inp.ee_force)
       /\ \A i \in Inst :
             ConstructAdds(i) =>
                 arr'[ctrl'[i].obj.integrated_error] =
                     VAdd(arr[ctrl'[i].obj.integrated_error],
                          RobotTx(ctrl'[i].obj.robot, Q0(ctrl'[i].obj.robot)))
      ]_vars

\* C14's case: a call with the integral term, null-space control and an
\* external force added a non-zero error to a non-zero accumulator
C14_Witness ==
    /\ CallReturned(1)
    /\ ctrl[1].obj.ki # Zero
    /\ ctrl[1].obj.null_control
    /\ last[1].inp.ee_force # None
    /\ last[1].res.x_tilde # Zeros(3)
    /\ last[1].pre_acc # Zeros(3)
    /\ Accumulator(1) = VAdd(last[1].pre_acc, last[1].res.x_tilde)
    /\ Accumulator(1) # last[1].pre_acc

\* the joints of controller i without a rest angle
MaskedOut(i) ==
    {j \in 1..N_JOINTS(ctrl[i].obj.robot) : ~ctrl[i].obj.null_indices[j]}

\* C15: a generate call that returns with null_control on sets dq_des to
\* the call's dq on the joints with a rest angle and leaves the other
\* entries as they were; with null_control off it leaves dq_des as it was.
\* The entries of the joints without a rest angle are zero at all times,
\* and so is their desired displacement q_des.
C15_HeldVelocityFrame ==
    \A i \in Inst :
        /\ ctrl[i].state = "built" =>
               \A j \in MaskedOut(i) : ctrl[i].obj.dq_des[j] = Zero
        /\ CallReturned(i) =>
               /\ ctrl[i].obj.dq_des = last[i].res.dq_des
               /\ IF ctrl[i].obj.null_control
                  THEN /\ \A j \in 1..N_JOINTS(ctrl[i].obj.robot) :
                             last[i].res.dq_des[j] =
                                 IF ctrl[i].obj.null_indices[j]
                                 THEN last[i].inp.dq[j]
                                 ELSE last[i].pre_dq_des[j]
                       /\ \A j \in MaskedOut(i) :
                             RestDisplacement(REST_ANGLES(ctrl[i].obj.robot),
                                              ctrl[i].obj.null_indices,
                                              last[i].inp.q)[j] = Zero
                  ELSE last[i].res.dq_des = last[i].pre_dq_des

\* C15's case: a call with null_control on whose dq is non-zero on a joint
\* with a rest angle, which now holds it instead of zero, and on a joint
\* without one
C15_Witness ==
    /\ CallReturned(1)
    /\ ctrl[1].obj.null_control
    /\ \E j \in MaskedOut(1) : last[1].inp.dq[j] # Zero
    /\ \E j \in 1..4 :
          /\ ctrl[1].obj.null_indices[j]
          /\ last[1].inp.dq[j] # Zero
          /\ last[1].pre_dq_des[j] = Zero
          /\ ctrl[1].obj.dq_des[j] = last[1].inp.dq[j]
====
